---- MODULE Spec2Model ----
(***************************************************************************)
(* Model of the AdGenerator video pipeline (src/main.py).                  *)
(*                                                                         *)
(* Part 1: compile_videos, the timeline compiler.  One run of the function *)
(* is modelled: its arguments are drawn in Init, every iteration of its    *)
(* scheduling loop is one step, and the code after the loop is two more    *)
(* steps.  Times are in tenths of a second, so 2.0 s is 20 and the clip    *)
(* durations round(uniform(2.0, 3.0), 1) are integers in 20..30.           *)
(* Python's 0-based paths[k] is paths[k + 1] here.                         *)
(*                                                                         *)
(* Part 2: download_specific_videos_from_folder, the selector of cached    *)
(* videos of one category.  One call is modelled: the cache and the        *)
(* arguments are drawn in InitSelect, the matching strategies are one      *)
(* step, every iteration of the scene de-duplication loop is one step and  *)
(* the selection is one step.  File names are sequences of characters.     *)
(*                                                                         *)
(* Part 3: get_exact_videos_from_gemini, the category planner.  One call   *)
(* is modelled: the available categories and the audio duration are drawn  *)
(* in InitPlan, the model's reply is read one line per step, each line     *)
(* drawn when it is read, and every iteration of the loop over the         *)
(* selected categories is one step.                                        *)
(*                                                                         *)
(* Part 4: the task table of the server.  generate_video_with_upload,      *)
(* process_video_generation, get_task_status and download_video run as     *)
(* coroutines of one                                                       *)
(* event loop (uvicorn with workers=1): a coroutine runs until it awaits   *)
(* something that suspends it.  The upload handler is suspended once, at   *)
(* "await audio_file.read()", and its worker starts after the response is  *)
(* sent; the worker is one step per write to the task table, and holds the *)
(* loop from its first statement to its finally clause, because the        *)
(* coroutines it awaits contain no suspending await.                       *)
(*                                                                         *)
(* Part 5: the media steps of one process_video_generation run: the audio  *)
(* probe, the filtering of the selected videos by what is cached and on    *)
(* disk, convert_videos_to_vertical, the mapping of the converted files to *)
(* their categories, and merge_audio_video.  The selected videos and the   *)
(* audio's length are drawn in InitMedia; a local path is named by the     *)
(* video's place in drive_videos and a converted file vertical_i by i.     *)
(*                                                                         *)
(* Each part has its own specification; the variables of the other parts   *)
(* keep their idle values in it.                                           *)
(***************************************************************************)
EXTENDS Integers, Sequences, FiniteSets, TLC

(* ------------------------------ bounds --------------------------------- *)

\* most sources handed to one compile_videos run
MaxSources == 2
\* longest target duration (tenths of a second) handed to a run
MaxTarget == 50
\* most loop iterations that are explored of a run over several sources
MaxAttempts == 5
\* most loop iterations that are explored of a run over a single source:
\* enough to pass its failure ceiling of FailCeilingFactor * 1 iterations
MaxAttemptsOneSource == 11

(* ------------------------- program constants --------------------------- *)

\* min_clip_duration = 2.0
MinClip == 20
\* max_clip_duration = 3.0
MaxClip == 30
\* a cut output must be larger than this many bytes
MinSegmentBytes == 10000
\* "if segment_idx >= len(paths) * 10: break"
FailCeilingFactor == 10
\* "if segment_idx > 1000: break"
SegmentCeiling == 1000

(* ------------------------------ inputs --------------------------------- *)

\* the values of round(random.uniform(2.0, 3.0), 1) that are explored
ClipDurations == {MinClip, MaxClip}

\* the durations get_video_duration reports for a source that are explored:
\* one shorter than every clip, and 5.0 s, which holds two short clips and
\* is also the value the probe falls back to
Durations == {15, 50}

\* the target durations that are explored
Targets == {0, MaxTarget}

\* category names; "unknown" is the name the code gives a path that the
\* video_to_folder_map does not hold (or every path, when there is no map)
Folders == {"Hair", "Product", "unknown"}

\* the sizes of the output file a cut that exits 0 can leave (0: no file)
OutputSizes == {0, MinSegmentBytes, MinSegmentBytes + 1}

\* the paths argument: n distinct sources, named 1..n, in list order
Paths(n) == [i \in 1..n |-> i]

\* the video_to_folder_map arguments that are explored: no map (every path
\* is "unknown"), or a map that sends every path to Hair or Product
FolderMaps(n) ==
    {[i \in 1..n |-> "unknown"]} \cup [1..n -> {"Hair", "Product"}]

\* the folder_timelines arguments that are explored, flattened to the order
\* in which get_folder_for_time visits them: none; two adjacent windows of
\* two categories; a window with no window before it, overlapped by a
\* window of another category, and no window from 4.5 s on
Timelines ==
    { << >>,
      << [folder |-> "Hair", start |-> 0, end |-> 20],
         [folder |-> "Product", start |-> 20, end |-> 150] >>,
      << [folder |-> "Product", start |-> 20, end |-> 40],
         [folder |-> "Hair", start |-> 30, end |-> 45] >> }

VARIABLES
    paths,                \* the list of source paths
    target_duration,      \* the duration to cover
    folder_timelines,     \* the category windows, in iteration order
    video_to_folder_map,  \* source -> category
    video_durations,      \* source -> probed duration
    video_positions,      \* source -> playhead
    folder_video_indices, \* category -> round-robin counter
    current_time,         \* elapsed timeline time
    segment_idx,          \* the counter that names segment_<idx>.mp4
    list_file,            \* the concat list: one record per line written
    pc,                   \* where the run is: loop, concat, done, raised
    error,                \* the exception that left compile_videos, or "none";
                          \* a TimeoutExpired is named after the call it left
    attempts,             \* loop iterations made so far
    last,                 \* the latest loop iteration: its source and outcome
    cutFailed             \* sources that had a failed cut

\* download_specific_videos_from_folder
VARIABLES
    cache,                \* the video files under the cache directory
    folder_name,          \* the category asked for, as its list of words
    sel_target_duration,  \* target_duration; 0 stands for None and for 0
    num_videos,           \* the num_videos argument
    matching_videos,      \* the files the matching strategies found
    unexamined,           \* matching files the scene loop has not visited
    video_info,           \* the files the scene loop kept
    seen_scenes,          \* the scene ids of the files kept
    sel_pc,               \* idle, start, dedup, returned, raised
    sel_e,                \* the exception the handler caught, or "none"
    sel_result            \* the files returned

selVars == << cache, folder_name, sel_target_duration, num_videos,
              matching_videos, unexamined, video_info, seen_scenes, sel_pc,
              sel_e, sel_result >>

\* get_exact_videos_from_gemini
VARIABLES
    drive_structure,          \* the keys of drive_structure, in dict order
    plan_audio_duration,      \* audio_duration; 0 stands for None
    lines_read,               \* lines of the reply consumed so far
    selected_folder_names,    \* the list of matched categories
    folder_video_counts,      \* category -> VIDEOS_TO_USE
    folder_timeline_segments, \* category -> list of (start, end)
    current_folder,           \* the category of the latest matching FOLDER
    nearest_folder,           \* the category the nearest FOLDER line named,
                              \* << >> if it named none or there was no such line
                              \* line; the empty name stands for None
    timeline_mode,            \* inside the TIMELINE block
    plan_pc,                  \* idle, start, parse, select, returned, raised
    plan_e,                   \* the exception the handler caught, or "none"
    plan_result               \* result['folders'], one record per entry

planVars == << drive_structure, plan_audio_duration, lines_read,
               selected_folder_names, folder_video_counts,
               folder_timeline_segments, current_folder, nearest_folder,
               timeline_mode, plan_pc, plan_e, plan_result >>

\* the task table and its coroutines
VARIABLES
    tasks,          \* task id -> record, for the ids in the table
    active_tasks,   \* the global counter
    temp_dirs,      \* the task ids whose temp directory exists
    reading,        \* upload handlers suspended at "await audio_file.read()"
    wpc,            \* task id -> position of its worker
    exc,            \* task id -> the exception its worker raised, or "none"
    running,        \* the worker that holds the event loop, or 0
    arrivals,       \* upload requests received so far
    last_req,       \* the latest upload request: what it saw and its answer
    observed        \* the latest answer of get_task_status or download_video

srvVars == << tasks, active_tasks, temp_dirs, reading, wpc, exc, running,
              arrivals, last_req, observed >>

VARIABLES
    drive_videos,             \* the videos of the selected folders
    audio_len,                \* the length of the audio track
    audio_token,              \* the tool prints a duration token for it
    duration,                 \* what the worker's probe returned
    downloaded,               \* the local paths kept by the filter
    media_folder_map,         \* the worker's video_to_folder_map
    converted,                \* the files convert_videos_to_vertical returns
    converted_to_folder_map,  \* converted file -> category
    compiled_len,             \* the length of the compiled video
    merged_len,               \* the length of merged.mp4, 0 before it exists
    media_pc,                 \* position in the run
    media_e                   \* what made the run fail, or "none"

mediaVars == << drive_videos, audio_len, audio_token, duration, downloaded,
                media_folder_map, converted, converted_to_folder_map,
                compiled_len, merged_len, media_pc, media_e >>

compileVars == << paths, target_duration, folder_timelines,
                  video_to_folder_map, video_durations, video_positions,
                  folder_video_indices, current_time, segment_idx, list_file,
                  pc, error, attempts, last, cutFailed >>

\* the variables of the parts other than compile_videos
notCompile == << selVars, planVars, srvVars, mediaVars >>

\* the variables of the parts other than the selector
notSelect == << compileVars, planVars, srvVars, mediaVars >>

\* the variables of the parts other than the planner
notPlan == << compileVars, selVars, srvVars, mediaVars >>

\* the variables of the parts other than the task table
notServer == << compileVars, selVars, planVars, mediaVars >>

\* what one run of the media steps is given
mediaInputs == << drive_videos, audio_len, audio_token >>

\* the variables of the parts other than the media steps
notMedia == << compileVars, selVars, planVars, srvVars >>

vars == << compileVars, notCompile >>

inputs == << paths, target_duration, folder_timelines, video_to_folder_map,
             video_durations >>

(* ------------------------------ helpers -------------------------------- *)

N == Len(paths)

Sources == 1..N

\* videos_by_folder[folder]: the paths of that category, in list order
VideosByFolder(folder) ==
    SelectSeq(paths, LAMBDA p : video_to_folder_map[p] = folder)

\* the keys of videos_by_folder
FolderKeys == {video_to_folder_map[p] : p \in Sources}

\* use_timeline = folder_timelines and len(folder_timelines) > 0
use_timeline == Len(folder_timelines) > 0

\* the windows that contain time t, by position in iteration order
WindowsAt(t) ==
    {i \in 1..Len(folder_timelines) :
        folder_timelines[i].start <= t /\ t < folder_timelines[i].end}

Min(S) == CHOOSE x \in S : \A y \in S : x <= y

\* get_folder_for_time with the end of a window taken to belong to it
get_folder_for_time_ClosedEnd(t) ==
    LET hits == {i \in 1..Len(folder_timelines) :
                    folder_timelines[i].start <= t
                    /\ t <= folder_timelines[i].end}
    IN  IF hits # {}
        THEN folder_timelines[Min(hits)].folder
        ELSE IF N > 0 THEN video_to_folder_map[paths[1]] ELSE "none"

\* get_folder_for_time with no default category when no window matches
get_folder_for_time_NoDefault(t) ==
    IF WindowsAt(t) # {}
    THEN folder_timelines[Min(WindowsAt(t))].folder
    ELSE "none"

\* get_folder_for_time: the first window containing t decides; with no such
\* window, the first key of videos_by_folder, which is the category of
\* paths[0]; "none" when there is no path at all
get_folder_for_time(t) ==
    IF WindowsAt(t) # {}
    THEN folder_timelines[Min(WindowsAt(t))].folder
    ELSE IF N > 0 THEN video_to_folder_map[paths[1]] ELSE "none"

\* the flat round-robin choice, one source ahead
FlatChoice_OffByOne(idx) == paths[((idx + 1) % N) + 1]

\* the flat round-robin choice paths[segment_idx % len(paths)]
FlatChoice(idx) == paths[(idx % N) + 1]

\* whether this iteration takes its source from a category's own list
UsesFolderList(t) ==
    /\ use_timeline
    /\ get_folder_for_time(t) \in FolderKeys

\* the source one loop iteration chooses (N > 0)
ChooseVideo(t, idx) ==
    IF UsesFolderList(t)
    THEN LET available_videos == VideosByFolder(get_folder_for_time(t))
             video_idx == folder_video_indices[get_folder_for_time(t)]
                              % Len(available_videos)
         IN  available_videos[video_idx + 1]
    ELSE FlatChoice(idx)

\* folder_video_indices after the choice
IndicesAfterChoice(t) ==
    IF UsesFolderList(t)
    THEN [folder_video_indices EXCEPT ![get_folder_for_time(t)] = @ + 1]
    ELSE folder_video_indices

\* the start offset of the cut: the playhead, or 0 when the clip does not fit
StartOffset_NoWrap(src, clip) == video_positions[src]

StartOffset(src, clip) ==
    IF video_positions[src] + clip > video_durations[src]
    THEN 0
    ELSE video_positions[src]

RECURSIVE SumDur(_)
SumDur(s) == IF s = << >> THEN 0 ELSE s[1].dur + SumDur(Tail(s))

(* ------------------------------- Init ---------------------------------- *)

\* no call of download_specific_videos_from_folder is under way
SelIdle ==
    /\ cache = {}
    /\ folder_name = << >>
    /\ sel_target_duration = 0
    /\ num_videos = 0
    /\ matching_videos = {}
    /\ unexamined = {}
    /\ video_info = {}
    /\ seen_scenes = {}
    /\ sel_pc = "idle"
    /\ sel_e = "none"
    /\ sel_result = {}

\* no call of compile_videos is under way
CompileIdle ==
    /\ paths = << >>
    /\ target_duration = 0
    /\ folder_timelines = << >>
    /\ video_to_folder_map = << >>
    /\ video_durations = << >>
    /\ video_positions = << >>
    /\ folder_video_indices = [f \in Folders |-> 0]
    /\ current_time = 0
    /\ segment_idx = 0
    /\ list_file = << >>
    /\ pc = "idle"
    /\ error = "none"
    /\ attempts = 0
    /\ last = [kind |-> "none", t |-> 0, idx |-> 0, src |-> 0]
    /\ cutFailed = {}

\* no call of get_exact_videos_from_gemini is under way
PlanIdle ==
    /\ drive_structure = << >>
    /\ plan_audio_duration = 0
    /\ lines_read = 0
    /\ selected_folder_names = << >>
    /\ folder_video_counts = << >>
    /\ folder_timeline_segments = << >>
    /\ current_folder = << >>
    /\ nearest_folder = << >>
    /\ timeline_mode = FALSE
    /\ plan_pc = "idle"
    /\ plan_e = "none"
    /\ plan_result = << >>

\* most upload requests that are explored
MaxRequests == 3

TaskIds == 1..MaxRequests

\* the server has started: "tasks = {}", "active_tasks = 0"
SrvInit ==
    /\ tasks = << >>
    /\ active_tasks = 0
    /\ temp_dirs = {}
    /\ reading = {}
    /\ wpc = [t \in TaskIds |-> "none"]
    /\ exc = [t \in TaskIds |-> "none"]
    /\ running = 0
    /\ arrivals = 0
    /\ last_req = [active |-> 0, ext_ok |-> TRUE, answer |-> "none"]
    /\ observed = [kind |-> "none", status |-> "none", error |-> "None",
                    output_file |-> "None", completed_at |-> "None",
                    answer |-> "none"]

\* no media step is under way
MediaIdle ==
    /\ drive_videos = << >>
    /\ audio_len = 0
    /\ audio_token = TRUE
    /\ duration = 0
    /\ downloaded = << >>
    /\ media_folder_map = << >>
    /\ converted = << >>
    /\ converted_to_folder_map = << >>
    /\ compiled_len = 0
    /\ merged_len = 0
    /\ media_pc = "idle"
    /\ media_e = "none"

NotCompileIdle == SelIdle /\ PlanIdle /\ SrvInit /\ MediaIdle

Init ==
    /\ NotCompileIdle
    /\ \E n \in 0..MaxSources :
          /\ paths = Paths(n)
          /\ video_to_folder_map \in FolderMaps(n)
          /\ video_durations \in [1..n -> Durations]
          /\ video_positions = [i \in 1..n |-> 0]
    /\ target_duration \in Targets
    /\ folder_timelines \in Timelines
    /\ folder_video_indices = [f \in Folders |-> 0]
    /\ current_time = 0
    /\ segment_idx = 0
    /\ list_file = << >>
    /\ pc = "loop"
    /\ error = "none"
    /\ attempts = 0
    /\ last = [kind |-> "none", t |-> 0, idx |-> 0, src |-> 0]
    /\ cutFailed = {}

(* ------------------------ the scheduling loop -------------------------- *)

\* "Path(segment_output).exists() and Path(segment_output).stat().st_size > 10000"
SegmentAccepted(size) == size > MinSegmentBytes

\* the code after the loop: "if segment_idx == 0: raise", else concatenate
AfterLoop(idx) ==
    IF idx = 0
    THEN pc' = "raised" /\ error' = "NoSegments"
    ELSE pc' = "concat" /\ error' = "none"

\* how many iterations of this run are explored
AttemptBound == IF N <= 1 THEN MaxAttemptsOneSource ELSE MaxAttempts

\* the while condition holds and one more iteration is explored
InLoop ==
    /\ pc = "loop"
    /\ current_time < target_duration
    /\ attempts < AttemptBound

\* what an iteration records about itself
Attempt(kind, src) ==
    [kind |-> kind, t |-> current_time, idx |-> segment_idx, src |-> src]

\* "while current_time < target_duration" is false: the loop is left
LoopDone ==
    /\ pc = "loop"
    /\ current_time >= target_duration
    /\ AfterLoop(segment_idx)
    /\ UNCHANGED notCompile
    /\ UNCHANGED << inputs, video_positions, folder_video_indices,
                    current_time, segment_idx, list_file, attempts, last,
                    cutFailed >>

\* an iteration over an empty source list: every branch of the source
\* selection evaluates segment_idx % len(paths), a ZeroDivisionError that
\* nothing in compile_videos catches
LoopNoPaths ==
    /\ InLoop
    /\ N = 0
    /\ pc' = "raised"
    /\ error' = "ZeroDivisionError"
    /\ attempts' = attempts + 1
    /\ UNCHANGED notCompile
    /\ UNCHANGED << inputs, video_positions, folder_video_indices,
                    current_time, segment_idx, list_file, last, cutFailed >>

\* the segment_idx after a successful cut
IdxAfterSuccess_NoIncrement(idx) == idx

IdxAfterSuccess(idx) == idx + 1

\* current_time advanced by the longest clip instead of the clip that was cut
ElapsedAfterSuccess_Nominal(t, clip) == t + MaxClip

\* current_time after a successful cut of clip tenths of a second
ElapsedAfterSuccess(t, clip) == t + clip

\* an iteration whose cut exits 0 and leaves a big enough output
CutSuccess ==
    /\ InLoop
    /\ N > 0
    /\ \E clip \in ClipDurations, size \in OutputSizes :
        LET src == ChooseVideo(current_time, segment_idx)
            start == StartOffset(src, clip)
        IN  /\ SegmentAccepted(size)
            /\ folder_video_indices' = IndicesAfterChoice(current_time)
            /\ list_file' = Append(list_file,
                    [idx |-> segment_idx, src |-> src, start |-> start,
                     dur |-> clip])
            /\ video_positions' = [video_positions EXCEPT ![src] = start + clip]
            /\ current_time' = ElapsedAfterSuccess(current_time, clip)
            /\ segment_idx' = IdxAfterSuccess(segment_idx)
            /\ last' = Attempt("ok", src)
            /\ IF segment_idx' > SegmentCeiling
               THEN AfterLoop(segment_idx')
               ELSE pc' = "loop" /\ error' = "none"
    /\ attempts' = attempts + 1
    /\ UNCHANGED notCompile
    /\ UNCHANGED << inputs, cutFailed >>

\* an iteration whose cut exits 0 but leaves no output or one of at most
\* MinSegmentBytes bytes: the else branch, which ends in "continue"
CutTooSmall ==
    /\ InLoop
    /\ N > 0
    /\ \E clip \in ClipDurations, size \in OutputSizes :
        LET src == ChooseVideo(current_time, segment_idx)
        IN  /\ ~SegmentAccepted(size)
            /\ folder_video_indices' = IndicesAfterChoice(current_time)
            /\ video_positions' = [video_positions EXCEPT ![src] = 0]
            /\ last' = Attempt("small", src)
            /\ cutFailed' = cutFailed \cup {src}
    /\ attempts' = attempts + 1
    /\ UNCHANGED notCompile
    /\ UNCHANGED << inputs, current_time, segment_idx, list_file, pc, error >>

\* the segment_idx after a cut that raised CalledProcessError
IdxAfterCalledProcessError(idx) == idx + 1

\* an iteration whose cut exits non-zero: except CalledProcessError
CutCalledProcessError ==
    /\ InLoop
    /\ N > 0
    /\ \E clip \in ClipDurations :
        LET src == ChooseVideo(current_time, segment_idx)
        IN  /\ folder_video_indices' = IndicesAfterChoice(current_time)
            /\ video_positions' = [video_positions EXCEPT ![src] = 0]
            /\ segment_idx' = IdxAfterCalledProcessError(segment_idx)
            /\ last' = Attempt("nonzero", src)
            /\ cutFailed' = cutFailed \cup {src}
            /\ IF segment_idx' >= N * FailCeilingFactor
               THEN AfterLoop(segment_idx')
               ELSE pc' = "loop" /\ error' = "none"
    /\ attempts' = attempts + 1
    /\ UNCHANGED notCompile
    /\ UNCHANGED << inputs, current_time, list_file >>

\* an iteration whose cut runs into timeout=60: subprocess.run raises
\* TimeoutExpired, which is no CalledProcessError, so no handler of
\* compile_videos catches it and it leaves the function
CutTimeout ==
    /\ InLoop
    /\ N > 0
    /\ \E clip \in ClipDurations :
        LET src == ChooseVideo(current_time, segment_idx)
            start == StartOffset(src, clip)
        IN  /\ folder_video_indices' = IndicesAfterChoice(current_time)
            /\ video_positions' = [video_positions EXCEPT ![src] = start]
            /\ last' = Attempt("timeout", src)
            /\ cutFailed' = cutFailed \cup {src}
    /\ pc' = "raised"
    /\ error' = "CutTimeoutExpired"
    /\ attempts' = attempts + 1
    /\ UNCHANGED notCompile
    /\ UNCHANGED << inputs, current_time, segment_idx, list_file >>

(* --------------------------- concatenation ----------------------------- *)

\* what the concat invocation can do
ConcatOutcomes == {"ok", "nonzero", "timeout"}

\* the concat invocation over list.txt and the return of compiled.mp4
Concat ==
    /\ pc = "concat"
    /\ \E outcome \in ConcatOutcomes :
          CASE outcome = "ok" -> pc' = "done" /\ error' = "none"
            [] outcome = "nonzero" -> pc' = "raised" /\ error' = "ConcatFailed"
            [] outcome = "timeout" ->
                   pc' = "raised" /\ error' = "ConcatTimeoutExpired"
    /\ UNCHANGED notCompile
    /\ UNCHANGED << inputs, video_positions, folder_video_indices,
                    current_time, segment_idx, list_file, attempts, last,
                    cutFailed >>

Next ==
    \/ LoopDone
    \/ LoopNoPaths
    \/ CutSuccess
    \/ CutTooSmall
    \/ CutCalledProcessError
    \/ CutTimeout
    \/ Concat

Spec == Init /\ [][Next]_vars

TypeOK ==
    /\ pc \in {"loop", "concat", "done", "raised"}
    /\ error \in {"none", "NoSegments", "ZeroDivisionError",
                  "CutTimeoutExpired", "ConcatFailed", "ConcatTimeoutExpired"}
    /\ segment_idx \in Nat
    /\ current_time \in Nat
    /\ attempts \in 0..AttemptBound

(* ------------------------------ claims -------------------------------- *)

\* the loop has been left and the code after it decided to concatenate
AtConcat == pc = "concat"

\* compile_videos has ended (returned or raised) or is about to concatenate
LoopLeft == pc # "loop"

\* at least one loop iteration has been made
Attempted == last.kind # "none"

\* the sources of the segments in the concat list
cutOk == {list_file[k].src : k \in 1..Len(list_file)}

\* the failure ceiling of this run
FailCeiling == N * FailCeilingFactor

\* C1 as stated: whenever the run proceeds to concatenation, the clip
\* durations of the segments in the concat list sum to at least
\* target_duration.
C1_Coverage ==
    AtConcat => SumDur(list_file) >= target_duration

\* C1 as amended: whenever the run proceeds to concatenation, the clip
\* durations in the concat list sum to at least target_duration, unless an
\* iteration ceiling ended the loop (segment_idx >= 10 * len(paths) after a
\* failed cut, or segment_idx > 1000).
C1_CoverageUnlessCeiling ==
    AtConcat =>
        \/ SumDur(list_file) >= target_duration
        \/ segment_idx >= FailCeiling
        \/ segment_idx > SegmentCeiling

\* a run with a failed cut that still covers a positive target below the
\* ceiling, with a clip shorter than the longest one
C1_Witness ==
    /\ AtConcat
    /\ target_duration > 0
    /\ cutFailed # {}
    /\ segment_idx < FailCeiling
    /\ SumDur(list_file) >= target_duration
    /\ \E k \in 1..Len(list_file) : list_file[k].dur < MaxClip

\* C2: once as many attempts as the failure ceiling have been made and all
\* of them failed, the loop has stopped and the run has not returned a
\* compiled video.
C2_Termination ==
    (N > 0 /\ list_file = << >> /\ attempts >= FailCeiling)
        => pc \notin {"loop", "done"}

\* exactly one source had failed cuts, it never had a successful one, and
\* there are other sources
OneBadSource ==
    /\ N > 1
    /\ Cardinality(cutFailed) = 1
    /\ cutFailed \cap cutOk = {}

\* C3: a run over N > 1 sources in which one source failed every time and
\* no other source failed ends with a non-empty concat list and is not
\* failed by the scheduling loop.
C3_FailSoft ==
    (LoopLeft /\ OneBadSource) =>
        /\ list_file # << >>
        /\ error \notin {"NoSegments", "CutTimeoutExpired", "ZeroDivisionError"}

\* C4: the run ends with the 'no segments' error exactly when no cut
\* succeeded (an empty source list included), and it never concatenates an
\* empty concat list.
C4_NoSegmentsError ==
    LoopLeft =>
        /\ (list_file = << >>) <=> (pc = "raised" /\ error = "NoSegments")
        /\ AtConcat => list_file # << >>

\* windows of different categories do not overlap
DisjointWindows ==
    \A i, j \in 1..Len(folder_timelines) :
        folder_timelines[i].folder # folder_timelines[j].folder =>
            \/ folder_timelines[i].end <= folder_timelines[j].start
            \/ folder_timelines[j].end <= folder_timelines[i].start

\* category c has a window [start, end) with start <= t < end
HasWindowAt(c, t) ==
    \E i \in 1..Len(folder_timelines) :
        /\ folder_timelines[i].folder = c
        /\ folder_timelines[i].start <= t
        /\ t < folder_timelines[i].end

\* category c has at least one mapped source
HasSources(c) == \E p \in Sources : video_to_folder_map[p] = c

\* C5: in timeline mode with disjoint windows, the source of every cut
\* attempt made at elapsed time t belongs to the category whose window
\* contains t, when that category has a mapped source.
C5_TimelineBinding ==
    (Attempted /\ use_timeline /\ DisjointWindows) =>
        \A c \in Folders :
            (HasWindowAt(c, last.t) /\ HasSources(c)) =>
                video_to_folder_map[last.src] = c

\* an attempt after the first window, in the second category's window, with
\* the two sources in different categories
C5_Witness ==
    /\ Attempted /\ use_timeline /\ DisjointWindows
    /\ N = 2
    /\ video_to_folder_map[1] # video_to_folder_map[2]
    /\ last.t >= 20
    /\ HasWindowAt("Product", last.t)
    /\ video_to_folder_map[last.src] = "Product"
    /\ \E k \in 1..Len(list_file) :
          video_to_folder_map[list_file[k].src] = "Hair"

\* C6: without a timeline and with no cut failure, the k-th segment
\* (0-based) is cut from paths[k mod N].
C6_FlatRoundRobin ==
    (~use_timeline /\ cutFailed = {}) =>
        \A k \in 1..Len(list_file) :
            list_file[k].src = paths[((k - 1) % N) + 1]

\* two sources and three segments without a failure: sources 0, 1, 0
C6_Witness ==
    /\ ~use_timeline
    /\ cutFailed = {}
    /\ N = 2
    /\ Len(list_file) = 3
    /\ list_file[3].src = paths[1]

\* no window contains time t
NoWindowAt(t) == \A c \in Folders : ~HasWindowAt(c, t)

\* the category of the first window, in iteration order, that contains t
\* has no mapped source
MatchWithoutSources(t) ==
    \E i \in 1..Len(folder_timelines) :
        /\ folder_timelines[i].start <= t /\ t < folder_timelines[i].end
        /\ \A j \in 1..(i - 1) :
              ~(folder_timelines[j].start <= t /\ t < folder_timelines[j].end)
        /\ ~HasSources(folder_timelines[i].folder)

\* C7 as stated: in timeline mode, when no window contains the elapsed
\* time or the matching category has no mapped source, the source is
\* paths[segment_idx mod N].
C7_TimelineFallback ==
    (Attempted /\ use_timeline
        /\ (NoWindowAt(last.t) \/ MatchWithoutSources(last.t)))
        => last.src = paths[(last.idx % N) + 1]

\* C7 as amended: in timeline mode, when the matching category has no
\* mapped source the source is paths[segment_idx mod N]; when no window
\* contains the elapsed time the source is taken from the list of the
\* first category of videos_by_folder, the category of paths[0].
C7_FallbackByCase ==
    (Attempted /\ use_timeline) =>
        /\ MatchWithoutSources(last.t) =>
              last.src = paths[(last.idx % N) + 1]
        /\ NoWindowAt(last.t) =>
              video_to_folder_map[last.src] = video_to_folder_map[paths[1]]

\* an attempt at a time no window contains whose source is not the flat
\* round-robin one, and so comes from the first category's own cycle
C7_Witness ==
    /\ Attempted /\ use_timeline
    /\ NoWindowAt(last.t)
    /\ last.src # paths[(last.idx % N) + 1]
    /\ video_to_folder_map[last.src] = video_to_folder_map[paths[1]]

\* C8: with at least two sources, no two consecutive entries of the concat
\* list are cut from the same source at the same start offset.
C8_NoAdjacentRepeat ==
    N >= 2 =>
        \A k \in 1..(Len(list_file) - 1) :
            ~(/\ list_file[k].src = list_file[k + 1].src
              /\ list_file[k].start = list_file[k + 1].start)

\* C9: a timeout of the cut invocation does not leave compile_videos.
C9_CutTimeoutHandled ==
    last.kind = "timeout" => ~(pc = "raised" /\ error = "CutTimeoutExpired")

\* C10: the sequence indices in the concat list are 0, 1, ..., n-1, and
\* the segment count reported after the loop is the number of successful
\* cuts.
C10_Contiguity ==
    /\ \A k \in 1..Len(list_file) : list_file[k].idx = k - 1
    /\ AtConcat => segment_idx = Len(list_file)

(* C11: the concat list only grows at its end, an entry already written is
   never changed or moved, and its entries are in strictly ascending
   segment index, the order in which the loop scheduled them. *)
C11_Ordering ==
    [][ /\ Len(list_file') >= Len(list_file)
        /\ \A k \in 1..Len(list_file) : list_file'[k] = list_file[k]
        /\ \A j, k \in 1..Len(list_file') :
              j < k => list_file'[j].idx < list_file'[k].idx ]_vars

C11_Witness ==
    /\ Len(list_file) >= 2
    /\ cutFailed # {}
    /\ list_file[2].idx > list_file[1].idx + 1

(* ======================================================================= *)
(* Part 2: download_specific_videos_from_folder                            *)
(* ======================================================================= *)

\* most files in the cache of one call
MaxCacheFiles == 5

\* "len(scene_id) > 10 and scene_id[:10] == seen[:10]"
ScenePrefixLen == 10
\* "if any(word in path_str for word in folder_words if len(word) > 3)"
MinWordLen == 3
\* avg_clip_duration = 2.5, in tenths of a second
AvgClip == 25
\* "videos_needed = max(3, ...)"
MinVideos == 3
\* "if target_duration > 15", in tenths of a second
LongTarget == 150
\* "min(5, len(video_info))"
LongVideos == 5

\* str.lower() on the letters that occur in the names explored
Lower(c) ==
    CASE c = "H" -> "h"
      [] c = "W" -> "w"
      [] c = "S" -> "s"
      [] c = "G" -> "g"
      [] c = "O" -> "o"
      [] OTHER -> c

LowerStr(str) == [i \in 1..Len(str) |-> Lower(str[i])]

\* Python's "a in b" on strings
IsSubstr(a, b) ==
    \E i \in 0..(Len(b) - Len(a)) : SubSeq(b, i + 1, i + Len(a)) = a

\* Python's s[:n]
Slice(str, n) == SubSeq(str, 1, IF Len(str) < n THEN Len(str) ELSE n)

\* " ".join(words)
RECURSIVE JoinWords(_)
JoinWords(words) ==
    IF Len(words) = 0 THEN << >>
    ELSE IF Len(words) = 1 THEN words[1]
    ELSE words[1] \o << " " >> \o JoinWords(Tail(words))

\* cache_base, when drive_cache/<main folder id> does not exist
CacheBase == << "d", "r", "i", "v", "e", "_", "c", "a", "c", "h", "e" >>

HairDir == << "H", "a", "i", "r" >>
SkinDir == << "s", "k", "i", "n" >>
Mp4 == << "m", "p", "4" >>
Mov == << "m", "o", "v" >>
Wrinkle01 == << "w", "r", "i", "n", "k", "l", "e", "_", "0", "1" >>

\* the files a cache is drawn from: a ten-character stem, a longer stem
\* with the same first ten characters, the ten-character stem in another
\* case and container, three short distinct stems, and a file of another
\* directory
CacheFiles ==
    { [dir |-> HairDir, stem |-> Wrinkle01, ext |-> Mp4],
      [dir |-> HairDir, stem |-> Wrinkle01 \o << "b" >>, ext |-> Mp4],
      [dir |-> HairDir, stem |-> << "W" >> \o Tail(Wrinkle01), ext |-> Mov],
      [dir |-> HairDir, stem |-> << "c", "u", "r", "l" >>, ext |-> Mp4],
      [dir |-> HairDir, stem |-> << "w", "a", "v", "e" >>, ext |-> Mp4],
      [dir |-> HairDir, stem |-> << "b", "o", "b" >>, ext |-> Mp4],
      [dir |-> SkinDir, stem |-> << "g", "l", "o", "w" >>, ext |-> Mp4] }

\* the folder_name arguments that are explored, as lists of words:
\* "Hair", "dry hair", "oils"
FolderNames ==
    { << HairDir >>,
      << << "d", "r", "y" >>, << "h", "a", "i", "r" >> >>,
      << << "o", "i", "l", "s" >> >> }

\* the (target_duration, num_videos) arguments that are explored: no
\* target with 3 or 5 videos asked for, and targets of 10, 16 and 30 s
SelectorArgs ==
    { [target |-> 0, num |-> 3], [target |-> 0, num |-> 5],
      [target |-> 100, num |-> 5], [target |-> 160, num |-> 5],
      [target |-> 300, num |-> 5] }

\* str(video_path).lower()
PathStr(v) ==
    LowerStr(CacheBase \o << "/" >> \o v.dir \o << "/" >> \o v.stem
             \o << "." >> \o v.ext)

\* folder_lower = folder_name.lower()
folder_lower == LowerStr(JoinWords(folder_name))

\* the names of video_path.parents
ParentNames(v) == {v.dir, CacheBase}

\* Strategy 1: folder_lower in path_str
Strategy1 == {v \in cache : IsSubstr(folder_lower, PathStr(v))}

\* Strategy 2: folder_lower in the lower-cased name of some parent
Strategy2 ==
    {v \in cache :
        \E parent \in ParentNames(v) : IsSubstr(folder_lower, LowerStr(parent))}

\* Strategy 3: some word of folder_lower longer than 3 is in path_str
Strategy3 ==
    {v \in cache :
        \E k \in 1..Len(folder_name) :
            /\ Len(folder_name[k]) > MinWordLen
            /\ IsSubstr(LowerStr(folder_name[k]), PathStr(v))}

\* matching_videos after the three strategies and list(set(...))
MatchingVideos ==
    IF Strategy1 # {} THEN Strategy1
    ELSE IF Strategy2 # {} THEN Strategy2
    ELSE Strategy3

\* scene_id = video_path.stem.lower()
SceneId(v) == LowerStr(v.stem)

\* is_duplicate after the loop over seen_scenes
IsDuplicate(scene_id) ==
    \E seen \in seen_scenes :
        \/ scene_id = seen
        \/ /\ Len(scene_id) > ScenePrefixLen
           /\ Slice(scene_id, ScenePrefixLen) = Slice(seen, ScenePrefixLen)

MinOf(a, b) == IF a < b THEN a ELSE b
MaxOf(a, b) == IF a > b THEN a ELSE b

\* clips_needed = int(target_duration / avg_clip_duration) + 1
ClipsNeeded(target) == (target \div AvgClip) + 1

\* videos_needed, for a target duration and len(video_info)
VideosNeeded(target, pool) ==
    IF target > LongTarget
    THEN MaxOf(MinVideos, MinOf(LongVideos, pool))
    ELSE MaxOf(MinVideos, MinOf(ClipsNeeded(target) \div 2, pool))

\* num_to_select
NumToSelect(target, num, pool) ==
    IF target > 0
    THEN MinOf(VideosNeeded(target, pool), pool)
    ELSE MinOf(num, pool)

\* "except Exception as e: ... return []"
OnSelectorException_Reraise(e) == [pc |-> "raised", e |-> e, result |-> {}]

OnSelectorException(e) == [pc |-> "returned", e |-> e, result |-> {}]

InitSelect ==
    /\ CompileIdle
    /\ PlanIdle
    /\ SrvInit
    /\ MediaIdle
    /\ cache \in {c \in SUBSET CacheFiles : Cardinality(c) <= MaxCacheFiles}
    /\ folder_name \in FolderNames
    /\ \E a \in SelectorArgs :
          /\ sel_target_duration = a.target
          /\ num_videos = a.num
    /\ matching_videos = {}
    /\ unexamined = {}
    /\ video_info = {}
    /\ seen_scenes = {}
    /\ sel_pc = "start"
    /\ sel_e = "none"
    /\ sel_result = {}

selInputs == << cache, folder_name, sel_target_duration, num_videos >>

\* listing the cache directory raises (it is unreadable, or removed
\* meanwhile): the handler of the function's try block runs
SelGlobRaises ==
    /\ sel_pc = "start"
    /\ LET h == OnSelectorException("OSError")
       IN  /\ sel_pc' = h.pc
           /\ sel_e' = h.e
           /\ sel_result' = h.result
    /\ UNCHANGED << selInputs, matching_videos, unexamined, video_info,
                    seen_scenes >>
    /\ UNCHANGED notSelect

\* the glob and the three strategies; "if not matching_videos: return []"
SelMatch ==
    /\ sel_pc = "start"
    /\ matching_videos' = MatchingVideos
    /\ unexamined' = MatchingVideos
    /\ sel_pc' = IF MatchingVideos = {} THEN "returned" ELSE "dedup"
    /\ UNCHANGED << selInputs, video_info, seen_scenes, sel_e, sel_result >>
    /\ UNCHANGED notSelect

\* one iteration of "for video_path in matching_videos": the list comes
\* from a set, so the files are visited in any order
SelDedupStep ==
    /\ sel_pc = "dedup"
    /\ \E v \in unexamined :
          /\ unexamined' = unexamined \ {v}
          /\ IF IsDuplicate(SceneId(v))
             THEN UNCHANGED << video_info, seen_scenes >>
             ELSE /\ video_info' = video_info \cup {v}
                  /\ seen_scenes' = seen_scenes \cup {SceneId(v)}
    /\ UNCHANGED << selInputs, matching_videos, sel_pc, sel_e, sel_result >>
    /\ UNCHANGED notSelect

\* after the loop: "if not video_info: return []", else num_to_select of
\* the shuffled (or sampled) files are returned
SelChoose ==
    /\ sel_pc = "dedup"
    /\ unexamined = {}
    /\ sel_pc' = "returned"
    /\ IF video_info = {}
       THEN sel_result' = {}
       ELSE \E chosen \in SUBSET video_info :
               /\ Cardinality(chosen) =
                     NumToSelect(sel_target_duration, num_videos,
                                 Cardinality(video_info))
               /\ sel_result' = chosen
    /\ UNCHANGED << selInputs, matching_videos, unexamined, video_info,
                    seen_scenes, sel_e >>
    /\ UNCHANGED notSelect

NextSelect == SelGlobRaises \/ SelMatch \/ SelDedupStep \/ SelChoose

SpecSelect == InitSelect /\ [][NextSelect]_vars

TypeOKSelect ==
    /\ cache \subseteq CacheFiles
    /\ matching_videos \subseteq cache
    /\ unexamined \subseteq matching_videos
    /\ video_info \subseteq matching_videos
    /\ sel_result \subseteq video_info
    /\ sel_pc \in {"start", "dedup", "returned", "raised"}
    /\ sel_e \in {"none", "OSError"}

(* ----------------------- claims about the selector --------------------- *)

SelReturned == sel_pc = "returned"

\* the call returned from the selection step, not from an early return
SelSelected == SelReturned /\ sel_e = "none" /\ video_info # {}

(* C12: the selector never returns two files whose lower-case stems are
   equal or agree on their first ten characters, whatever the order in
   which the scene loop visits the matching files. *)
C12_NoDuplicateScene ==
    SelReturned =>
        \A a, b \in sel_result :
            a # b => Slice(SceneId(a), ScenePrefixLen)
                        # Slice(SceneId(b), ScenePrefixLen)

\* clipsNeeded = ceil(targetDuration / 2.5)
ClaimedClipsNeeded(target) == (target + AvgClip - 1) \div AvgClip

\* videosNeeded = max(3, min(clipsNeeded/2, poolSize)), capped at 5 when
\* targetDuration > 15
ClaimedVideosNeeded(target, pool) ==
    LET base == MaxOf(MinVideos, MinOf(ClaimedClipsNeeded(target) \div 2, pool))
    IN  IF target > LongTarget THEN MinOf(base, LongVideos) ELSE base

(* C13: with a target duration the selector returns min(poolSize,
   videosNeeded) files, videosNeeded being max(3, min(ceil(target / 2.5) / 2,
   poolSize)) capped at 5 for a target above 15 s, and never more than
   poolSize files. *)
C13_SelectionCount ==
    (SelSelected /\ sel_target_duration > 0) =>
        LET pool == Cardinality(video_info)
        IN  /\ Cardinality(sel_result) =
                  MinOf(pool, ClaimedVideosNeeded(sel_target_duration, pool))
            /\ Cardinality(sel_result) <= pool

(* C14: the selector never raises; it returns the empty list when no file
   matches under any strategy, when no file is left after the scene loop,
   and when a step inside it throws. *)
C14_NeverRaises ==
    /\ sel_pc # "raised"
    /\ (SelReturned /\ (matching_videos = {} \/ video_info = {} \/ sel_e # "none"))
          => sel_result = {}

C14_Witness == SelReturned /\ sel_e # "none" /\ cache # {}

(* ======================================================================= *)
(* Part 3: get_exact_videos_from_gemini                                    *)
(* ======================================================================= *)

\* most lines of the model's reply that are read
MaxReplyLines == 4
\* most cached scenes of one category
MaxPool == 3

\* "selected_folder_names[:2]"
MaxFolders == 2
\* "folder_video_counts[current_folder] = 5  # Default"
DefaultCount == 5
\* "min(max(3, num_videos), 5)" and random.randint(3, 5)
CountLow == 3
CountHigh == 5

NameHair == << "H", "a", "i", "r" >>
NameSkin == << "S", "k", "i", "n" >>
NameGlow == << "G", "l", "o", "w" >>
NameOthers == << "O", "t", "h", "e", "r", "s" >>

\* the drive_structure arguments that are explored, as their keys in dict
\* order: none, one, two and three categories
DriveStructures ==
    { << >>, << NameHair >>, << NameHair, NameSkin >>,
      << NameSkin, NameHair, NameGlow >> }

\* the audio_duration arguments that are explored: None and 15.0 s
AudioDurations == {0, 150}

\* the names after "FOLDER:" that are explored: a key, the German word for
\* a key, a key in lower case, a name that is no category, and no name
ReplyNames ==
    { NameHair, << "h", "a", "a", "r" >>, << "s", "k", "i", "n" >>,
      << "g", "l", "o", "w" >>, << "o", "i", "l", "s" >>, << >> }

\* the lines of a reply that are explored.  count is the int() of the text
\* after VIDEOS_TO_USE:, and is_int is false when int() raises; segs are the ranges of
\* a TIMELINE_SEGMENTS line that parse; an ENTRY is a line "a-bs: desc" of
\* the TIMELINE block (desc holds the name of the category meant); OTHER is
\* every line that no branch handles (RELEVANCE, PRODUCT_MENTIONED, text)
ReplyLines ==
    { [tag |-> "FOLDER", name |-> n] : n \in ReplyNames }
    \cup { [tag |-> "VIDEOS_TO_USE", is_int |-> TRUE, count |-> c] :
              c \in {2, 4, 9} }
    \cup { [tag |-> "VIDEOS_TO_USE", is_int |-> FALSE, count |-> 0] }
    \cup { [tag |-> "TIMELINE"], [tag |-> "OTHER"] }
    \cup { [tag |-> "TIMELINE_SEGMENTS", segs |-> sg] :
              sg \in { << >>, << << 0, 30 >> >> } }
    \cup { [tag |-> "ENTRY", desc |-> NameSkin, seg |-> << 30, 60 >>] }

\* semantic_pairs, for the terms that occur in the names explored
SemanticPairs ==
    { [english |-> << "h", "a", "i", "r" >>,
       variations |-> { << "h", "a", "a", "r" >> }],
      [english |-> << "s", "k", "i", "n" >>,
       variations |-> { << "h", "a", "u", "t" >> }],
      [english |-> << "g", "l", "o", "w" >>,
       variations |-> { << "g", "l", "a", "n", "z" >> }] }

are_semantically_similar(folder, gemini_response) ==
    LET f == LowerStr(folder)
        r == LowerStr(gemini_response)
    IN  \/ IsSubstr(f, r)
        \/ IsSubstr(r, f)
        \/ \E pr \in SemanticPairs :
              \/ /\ IsSubstr(pr.english, f)
                 /\ \E var \in pr.variations : IsSubstr(var, r)
              \/ /\ \E var \in pr.variations : IsSubstr(var, f)
                 /\ IsSubstr(pr.english, r)

\* the condition of the FOLDER branch for one valid_folder
FolderMatches(valid_folder, name) ==
    \/ IsSubstr(LowerStr(valid_folder), LowerStr(name))
    \/ IsSubstr(LowerStr(name), LowerStr(valid_folder))
    \/ are_semantically_similar(valid_folder, name)

\* the positions in drive_structure.keys() of the categories that match
MatchingKeys(name) ==
    {i \in 1..Len(drive_structure) : FolderMatches(drive_structure[i], name)}

\* the name appended for a FOLDER line: valid_folder, a key
MatchedName_FromReply(name) == name

MatchedName(name) == drive_structure[Min(MatchingKeys(name))]

\* d[k] = v on a dict
DictSet(d, k, v) == [x \in DOMAIN d \cup {k} |-> IF x = k THEN v ELSE d[x]]

\* d.get(k, default)
DictGet(d, k, default) == IF k \in DOMAIN d THEN d[k] ELSE default

InSeq(x, sq) == \E i \in 1..Len(sq) : sq[i] = x

\* "num_videos = min(max(3, num_videos), 5)"
ClampCount(n) == MinOf(MaxOf(CountLow, n), CountHigh)

\* the fixed answer of the empty-structure return and of the handler
OthersOnly == << [name |-> NameOthers, asked |-> 0, pool |-> 0, videos |-> 0,
                  timeline_segments |-> << >>] >>

\* "except Exception as e: ... return {'folders': [{'name': 'Others', ...}]}"
OnPlannerException(e) == [pc |-> "returned", e |-> e, result |-> OthersOnly]

InitPlan ==
    /\ CompileIdle
    /\ SelIdle
    /\ SrvInit
    /\ MediaIdle
    /\ drive_structure \in DriveStructures
    /\ plan_audio_duration \in AudioDurations
    /\ lines_read = 0
    /\ selected_folder_names = << >>
    /\ folder_video_counts = << >>
    /\ folder_timeline_segments = << >>
    /\ current_folder = << >>
    /\ nearest_folder = << >>
    /\ timeline_mode = FALSE
    /\ plan_pc = "start"
    /\ plan_e = "none"
    /\ plan_result = << >>

planInputs == << drive_structure, plan_audio_duration >>

parseState == << selected_folder_names, folder_video_counts,
                 folder_timeline_segments, current_folder, nearest_folder,
                 timeline_mode >>

\* "if not drive_structure: return {'folders': [{'name': 'Others', ...}]}"
PlanNoFolders ==
    /\ plan_pc = "start"
    /\ Len(drive_structure) = 0
    /\ plan_pc' = "returned"
    /\ plan_result' = OthersOnly
    /\ UNCHANGED << planInputs, lines_read, parseState, plan_e >>
    /\ UNCHANGED notPlan

\* model.generate_content raises (or the import, or configure): the handler
\* of the function's try block runs
PlanCallRaises ==
    /\ plan_pc = "start"
    /\ LET h == OnPlannerException("Exception")
       IN  /\ plan_pc' = h.pc
           /\ plan_e' = h.e
           /\ plan_result' = h.result
    /\ UNCHANGED << planInputs, lines_read, parseState >>
    /\ UNCHANGED notPlan

\* the reply arrived
PlanReply ==
    /\ plan_pc = "start"
    /\ Len(drive_structure) > 0
    /\ plan_pc' = "parse"
    /\ UNCHANGED << planInputs, lines_read, parseState, plan_e, plan_result >>
    /\ UNCHANGED notPlan

\* the branches of the loop body, for one line
ParseFolder(line) ==
    /\ timeline_mode' = FALSE
    /\ IF MatchingKeys(line.name) = {}
       THEN /\ UNCHANGED << selected_folder_names, current_folder >>
            /\ nearest_folder' = << >>
       ELSE LET valid_folder == MatchedName(line.name)
            IN  /\ selected_folder_names' =
                      IF InSeq(valid_folder, selected_folder_names)
                      THEN selected_folder_names
                      ELSE Append(selected_folder_names, valid_folder)
                /\ current_folder' = valid_folder
                /\ nearest_folder' = valid_folder
    /\ UNCHANGED << folder_video_counts, folder_timeline_segments >>

ParseVideosToUse(line) ==
    /\ folder_video_counts' =
          DictSet(folder_video_counts, current_folder,
                  IF line.is_int THEN line.count ELSE DefaultCount)
    /\ UNCHANGED << selected_folder_names, folder_timeline_segments,
                    current_folder, nearest_folder, timeline_mode >>

ParseTimelineSegments(line) ==
    /\ folder_timeline_segments' =
          IF Len(line.segs) > 0
          THEN DictSet(folder_timeline_segments, current_folder, line.segs)
          ELSE folder_timeline_segments
    /\ UNCHANGED << selected_folder_names, folder_video_counts,
                    current_folder, nearest_folder, timeline_mode >>

\* the positions of the keys whose lower-case name is in the description
KeysIn(desc) ==
    {i \in 1..Len(drive_structure) :
        IsSubstr(LowerStr(drive_structure[i]), LowerStr(desc))}

ParseEntry(line) ==
    /\ folder_timeline_segments' =
          IF KeysIn(line.desc) = {}
          THEN folder_timeline_segments
          ELSE LET valid_folder == drive_structure[Min(KeysIn(line.desc))]
               IN  DictSet(folder_timeline_segments, valid_folder,
                           Append(DictGet(folder_timeline_segments,
                                          valid_folder, << >>), line.seg))
    /\ UNCHANGED << selected_folder_names, folder_video_counts,
                    current_folder, nearest_folder, timeline_mode >>

\* one iteration of "for line in raw_response.split('\n')"
PlanParseLine ==
    /\ plan_pc = "parse"
    /\ lines_read < MaxReplyLines
    /\ lines_read' = lines_read + 1
    /\ \E line \in ReplyLines :
          CASE line.tag = "TIMELINE" ->
                  /\ timeline_mode' = TRUE
                  /\ UNCHANGED << selected_folder_names, folder_video_counts,
                                  folder_timeline_segments, current_folder,
                                  nearest_folder >>
            [] line.tag = "FOLDER" -> ParseFolder(line)
            [] line.tag = "VIDEOS_TO_USE" /\ current_folder # << >> ->
                  ParseVideosToUse(line)
            [] line.tag = "TIMELINE_SEGMENTS" /\ current_folder # << >> ->
                  ParseTimelineSegments(line)
            [] line.tag = "ENTRY" /\ timeline_mode /\ current_folder # << >> ->
                  ParseEntry(line)
            [] OTHER -> UNCHANGED parseState
    /\ UNCHANGED << planInputs, plan_pc, plan_e, plan_result >>
    /\ UNCHANGED notPlan

\* after the loop: the list is cut to two names, or becomes ['Others'] with
\* a count of random.randint(3, 5)
PlanEndOfReply ==
    /\ plan_pc = "parse"
    /\ plan_pc' = "select"
    /\ IF Len(selected_folder_names) = 0
       THEN /\ selected_folder_names' = << NameOthers >>
            /\ \E r \in CountLow..CountHigh :
                  folder_video_counts' =
                      DictSet(folder_video_counts, NameOthers, r)
       ELSE /\ selected_folder_names' =
                  SubSeq(selected_folder_names, 1,
                         MinOf(Len(selected_folder_names), MaxFolders))
            /\ UNCHANGED folder_video_counts
    /\ UNCHANGED << planInputs, lines_read, folder_timeline_segments,
                    current_folder, nearest_folder, timeline_mode, plan_e,
                    plan_result >>
    /\ UNCHANGED notPlan

\* one iteration of "for folder_name in selected_folder_names": the count
\* is clamped, download_specific_videos_from_folder is called (the
\* category has pool distinct cached scenes; the call returns
\* NumToSelect of them, or [] when there are none or its handler ran), and
\* one entry is appended either way
PlanSelectFolder ==
    /\ plan_pc = "select"
    /\ Len(plan_result) < Len(selected_folder_names)
    /\ LET name == selected_folder_names[Len(plan_result) + 1]
       IN  \E r \in CountLow..CountHigh, pool \in 0..MaxPool, failed \in BOOLEAN :
              LET num == ClampCount(DictGet(folder_video_counts, name, r))
                  got == IF failed THEN 0
                         ELSE NumToSelect(plan_audio_duration, num, pool)
              IN  plan_result' =
                      Append(plan_result,
                             [name |-> name, asked |-> num, pool |-> pool,
                              videos |-> got,
                              timeline_segments |->
                                  DictGet(folder_timeline_segments, name,
                                          << >>)])
    /\ UNCHANGED << planInputs, lines_read, parseState, plan_pc, plan_e >>
    /\ UNCHANGED notPlan

\* "return result"
PlanReturn ==
    /\ plan_pc = "select"
    /\ Len(plan_result) = Len(selected_folder_names)
    /\ plan_pc' = "returned"
    /\ UNCHANGED << planInputs, lines_read, parseState, plan_e, plan_result >>
    /\ UNCHANGED notPlan

NextPlan ==
    \/ PlanNoFolders
    \/ PlanCallRaises
    \/ PlanReply
    \/ PlanParseLine
    \/ PlanEndOfReply
    \/ PlanSelectFolder
    \/ PlanReturn

SpecPlan == InitPlan /\ [][NextPlan]_vars

(* ----------------------- claims about the planner ---------------------- *)

PlanReturned == plan_pc = "returned"

\* the call got a reply and went through the parse and the selection
PlanParsed == PlanReturned /\ plan_e = "none" /\ Len(drive_structure) > 0

DriveKeys == {drive_structure[i] : i \in 1..Len(drive_structure)}

RECURSIVE SumAsked(_)
SumAsked(entries) ==
    IF entries = << >> THEN 0 ELSE entries[1].asked + SumAsked(Tail(entries))

\* ceil(a / b)
CeilDiv(a, b) == (a + b - 1) \div b

(* C15: for every reply, the per-category counts the planner ends up with
   sum to ceil(audioDuration / clipDuration), for some clip duration the
   compiler uses, and no category is asked for more than it has. *)
C15_DistributionConservation ==
    (PlanParsed /\ plan_audio_duration > 0) =>
        /\ \E clip \in MinClip..MaxClip :
              SumAsked(plan_result) = CeilDiv(plan_audio_duration, clip)
        /\ \A i \in 1..Len(plan_result) :
              plan_result[i].asked <= plan_result[i].pool

(* C16 as stated: every category name of the result is a key of
   drive_structure, for every reply and on the exception path. *)
C16_NamesAreKeys ==
    PlanReturned =>
        \A i \in 1..Len(plan_result) : plan_result[i].name \in DriveKeys

(* C16 as amended: every category name of the result is a key of
   drive_structure, or it is the fallback name Others, which is then the
   only entry and is given only when drive_structure is empty, when the call
   raised, or when no FOLDER line of the reply matched a key. *)
C16_NamesAreKeysOrFallback ==
    PlanReturned =>
        \A i \in 1..Len(plan_result) :
            \/ plan_result[i].name \in DriveKeys
            \/ /\ plan_result[i].name = NameOthers
               /\ Len(plan_result) = 1
               /\ \/ Len(drive_structure) = 0
                  \/ plan_e # "none"
                  \/ current_folder = << >>

C16_Witness ==
    /\ PlanParsed
    /\ Len(plan_result) = 2
    /\ \A i \in 1..2 : plan_result[i].name \in DriveKeys
    /\ Len(drive_structure) = 3

(* ======================================================================= *)
(* Part 4: the task table                                                  *)
(* ======================================================================= *)

\* MAX_CONCURRENT_TASKS = 2
MAX_CONCURRENT_TASKS == 2

\* the record generate_video_with_upload stores for a new task
NewTask ==
    [status |-> "pending", error |-> "None", output_file |-> "None",
     completed_at |-> "None"]

\* whether the worker is suspended, and other coroutines run, when it
\* reaches this position.  Its awaits are at convert and compile:
\* convert_videos_to_vertical and compile_videos are coroutines without an
\* await of their own (they call subprocess.run), so neither suspends
Suspends_AtAwaits(pos) == pos \in {"convert", "compile"}

Suspends(pos) == FALSE

\* where the worker continues when a stage raises e: every stage is inside
\* "try: ... except Exception as e:"
OnWorkerException_HTTPOnly(e) ==
    IF e = "HTTPException" THEN "except_status" ELSE "finally"

OnWorkerException(e) == "except_status"

\* the worker of t has started and has not reached the end of its finally
InFlight(t) == wpc[t] \notin {"none", "scheduled", "done"}

\* the worker of t is the coroutine that runs next
Holds(t) == running = t \/ (running = 0 /\ InFlight(t))

\* the worker of t moves on to position pos
Goto(t, pos) ==
    /\ wpc' = [wpc EXCEPT ![t] = pos]
    /\ running' = IF Suspends(pos) THEN 0 ELSE t

\* tasks[t][field] = value
SetField(t, field, value) ==
    tasks' = [tasks EXCEPT ![t] = [@ EXCEPT ![field] = value]]

\* the answer of the two checks that open generate_video_with_upload: the
\* limit check, then the extension check
UploadAnswer_NoExtensionCheck(active, ext_ok) ==
    IF active >= MAX_CONCURRENT_TASKS THEN "503" ELSE "accepted"

UploadAnswer(active, ext_ok) ==
    IF active >= MAX_CONCURRENT_TASKS THEN "503"
    ELSE IF ~ext_ok THEN "400"
    ELSE "accepted"

\* generate_video_with_upload up to "await audio_file.read()": the limit
\* check, the extension check, a fresh task id and its temp directory
ReqArrive ==
    /\ running = 0
    /\ arrivals < MaxRequests
    /\ arrivals' = arrivals + 1
    /\ \E ext_ok \in BOOLEAN :
          LET answer == UploadAnswer(active_tasks, ext_ok)
          IN  /\ last_req' = [active |-> active_tasks, ext_ok |-> ext_ok,
                              answer |-> answer]
              /\ IF answer = "accepted"
                 THEN /\ temp_dirs' = temp_dirs \cup {arrivals + 1}
                      /\ reading' = reading \cup {arrivals + 1}
                 ELSE UNCHANGED << temp_dirs, reading >>
    /\ UNCHANGED << tasks, active_tasks, wpc, exc, running, observed >>
    /\ UNCHANGED notServer

\* the rest of generate_video_with_upload: the task is stored as pending
\* and the worker is added to the background tasks, unless building the
\* VideoGenerationRequest raises (a script_text of 1 to 9 characters
\* fails its min_length=10), which leaves the pending task without worker
ReqCreate(t) ==
    /\ running = 0
    /\ t \in reading
    /\ reading' = reading \ {t}
    /\ tasks' = DictSet(tasks, t, NewTask)
    /\ \E request_ok \in BOOLEAN :
          wpc' = IF request_ok THEN [wpc EXCEPT ![t] = "scheduled"] ELSE wpc
    /\ UNCHANGED << active_tasks, temp_dirs, exc, running, arrivals,
                    last_req, observed >>
    /\ UNCHANGED notServer

\* process_video_generation starts, after the response was sent:
\* "active_tasks += 1"
WorkerEnter(t) ==
    /\ running = 0
    /\ wpc[t] = "scheduled"
    /\ active_tasks' = active_tasks + 1
    /\ Goto(t, "set_processing")
    /\ UNCHANGED << tasks, temp_dirs, reading, exc, arrivals, last_req,
                    observed >>
    /\ UNCHANGED notServer

\* "tasks[task_id]['status'] = 'processing'"
WorkerSetProcessing(t) ==
    /\ Holds(t)
    /\ wpc[t] = "set_processing"
    /\ SetField(t, "status", "processing")
    /\ Goto(t, "collect")
    /\ UNCHANGED << active_tasks, temp_dirs, reading, exc, arrivals,
                    last_req, observed >>
    /\ UNCHANGED notServer

\* what running the media tool on a file can come to: its output holds a
\* duration token, its output holds none, or the tool cannot be invoked
ToolOutcomes == {"duration", "no_token", "tool_fails"}

\* "return 5.0" and "return 10.0", in tenths of a second
VideoFallback == 50
AudioFallback == 100

Returned(v) == [kind |-> "return", value |-> v]
Raised == [kind |-> "raise", value |-> 0]

\* get_video_duration: the whole body is inside "try: ... except Exception"
get_video_duration(outcome, d) ==
    CASE outcome = "duration"   -> Returned(d)
      [] outcome = "no_token"   -> Returned(VideoFallback)
      [] outcome = "tool_fails" -> Returned(VideoFallback)

\* get_audio_duration: no try, so what get_ffmpeg_exe or subprocess.run
\* raises leaves the function
get_audio_duration(outcome, d) ==
    CASE outcome = "duration"   -> Returned(d)
      [] outcome = "no_token"   -> Returned(AudioFallback)
      [] outcome = "tool_fails" -> Raised

\* the audio durations of the uploads that are explored, in tenths
AudioDurationsProbed == {50, 150}

\* "duration = get_audio_duration(audio_path)", inside the worker's try,
\* then the videos of the selected folders are collected:
\* "if not drive_videos:"
WorkerCollect(t) ==
    /\ Holds(t)
    /\ wpc[t] = "collect"
    /\ \E outcome \in ToolOutcomes, d \in AudioDurationsProbed :
          LET probed == get_audio_duration(outcome, d)
          IN  IF probed.kind = "raise"
              THEN /\ exc' = [exc EXCEPT ![t] = "get_audio_duration"]
                   /\ Goto(t, OnWorkerException("get_audio_duration"))
              ELSE /\ \E has_videos \in BOOLEAN :
                         Goto(t, IF has_videos THEN "filter"
                                               ELSE "error_status")
                   /\ UNCHANGED exc
    /\ UNCHANGED << tasks, active_tasks, temp_dirs, reading, arrivals,
                    last_req, observed >>
    /\ UNCHANGED notServer

\* the videos that are cached and exist are kept: "if not downloaded:"
WorkerFilter(t) ==
    /\ Holds(t)
    /\ wpc[t] = "filter"
    /\ \E any_cached \in BOOLEAN :
          Goto(t, IF any_cached THEN "convert" ELSE "error_status")
    /\ UNCHANGED << tasks, active_tasks, temp_dirs, reading, exc, arrivals,
                    last_req, observed >>
    /\ UNCHANGED notServer

\* "tasks[task_id]['status'] = 'error'", in both validation branches
WorkerErrorStatus(t) ==
    /\ Holds(t)
    /\ wpc[t] = "error_status"
    /\ SetField(t, "status", "error")
    /\ Goto(t, "error_message")
    /\ UNCHANGED << active_tasks, temp_dirs, reading, exc, arrivals,
                    last_req, observed >>
    /\ UNCHANGED notServer

\* "tasks[task_id]['error'] = error_msg" and
\* "raise HTTPException(status_code=400, detail=error_msg)"
WorkerErrorMessage(t) ==
    /\ Holds(t)
    /\ wpc[t] = "error_message"
    /\ SetField(t, "error", "error_msg")
    /\ exc' = [exc EXCEPT ![t] = "HTTPException"]
    /\ Goto(t, OnWorkerException("HTTPException"))
    /\ UNCHANGED << active_tasks, temp_dirs, reading, arrivals, last_req,
                    observed >>
    /\ UNCHANGED notServer

\* the stages after the validation, in order
NextStage(pos) ==
    CASE pos = "convert" -> "compile"
      [] pos = "compile" -> "merge"
      [] pos = "merge" -> "move"
      [] pos = "move" -> "completed_status"

\* convert_videos_to_vertical, compile_videos, merge_audio_video and
\* shutil.move: each returns, or raises an Exception
WorkerStage(t) ==
    /\ Holds(t)
    /\ wpc[t] \in {"convert", "compile", "merge", "move"}
    /\ \E ok \in BOOLEAN :
          IF ok
          THEN /\ Goto(t, NextStage(wpc[t]))
               /\ UNCHANGED exc
          ELSE /\ exc' = [exc EXCEPT ![t] = wpc[t]]
               /\ Goto(t, OnWorkerException(wpc[t]))
    /\ UNCHANGED << tasks, active_tasks, temp_dirs, reading, arrivals,
                    last_req, observed >>
    /\ UNCHANGED notServer

\* "tasks[task_id]['status'] = 'completed'"
WorkerCompletedStatus(t) ==
    /\ Holds(t)
    /\ wpc[t] = "completed_status"
    /\ SetField(t, "status", "completed")
    /\ Goto(t, "completed_output")
    /\ UNCHANGED << active_tasks, temp_dirs, reading, exc, arrivals,
                    last_req, observed >>
    /\ UNCHANGED notServer

\* "tasks[task_id]['output_file'] = str(final_output)"
WorkerCompletedOutput(t) ==
    /\ Holds(t)
    /\ wpc[t] = "completed_output"
    /\ SetField(t, "output_file", "final_output")
    /\ Goto(t, "completed_at")
    /\ UNCHANGED << active_tasks, temp_dirs, reading, exc, arrivals,
                    last_req, observed >>
    /\ UNCHANGED notServer

\* "tasks[task_id]['completed_at'] = datetime.now()"
WorkerCompletedAt(t) ==
    /\ Holds(t)
    /\ wpc[t] = "completed_at"
    /\ SetField(t, "completed_at", "now")
    /\ Goto(t, "cleanup")
    /\ UNCHANGED << active_tasks, temp_dirs, reading, exc, arrivals,
                    last_req, observed >>
    /\ UNCHANGED notServer

\* no callback_url is set by the upload handler;
\* "shutil.rmtree(TEMP_DIR / task_id, ignore_errors=True)"
WorkerCleanup(t) ==
    /\ Holds(t)
    /\ wpc[t] = "cleanup"
    /\ temp_dirs' = temp_dirs \ {t}
    /\ Goto(t, "finally")
    /\ UNCHANGED << tasks, active_tasks, reading, exc, arrivals, last_req,
                    observed >>
    /\ UNCHANGED notServer

\* "except Exception as e: tasks[task_id]['status'] = 'failed'"
WorkerExceptStatus(t) ==
    /\ Holds(t)
    /\ wpc[t] = "except_status"
    /\ SetField(t, "status", "failed")
    /\ Goto(t, "except_error")
    /\ UNCHANGED << active_tasks, temp_dirs, reading, exc, arrivals,
                    last_req, observed >>
    /\ UNCHANGED notServer

\* "tasks[task_id]['error'] = str(e)"
WorkerExceptError(t) ==
    /\ Holds(t)
    /\ wpc[t] = "except_error"
    /\ SetField(t, "error", "str(e)")
    /\ Goto(t, "except_at")
    /\ UNCHANGED << active_tasks, temp_dirs, reading, exc, arrivals,
                    last_req, observed >>
    /\ UNCHANGED notServer

\* "tasks[task_id]['completed_at'] = datetime.now()"
WorkerExceptAt(t) ==
    /\ Holds(t)
    /\ wpc[t] = "except_at"
    /\ SetField(t, "completed_at", "now")
    /\ Goto(t, "except_cleanup")
    /\ UNCHANGED << active_tasks, temp_dirs, reading, exc, arrivals,
                    last_req, observed >>
    /\ UNCHANGED notServer

\* "shutil.rmtree(TEMP_DIR / task_id, ignore_errors=True)" in the handler
WorkerExceptCleanup(t) ==
    /\ Holds(t)
    /\ wpc[t] = "except_cleanup"
    /\ temp_dirs' = temp_dirs \ {t}
    /\ Goto(t, "finally")
    /\ UNCHANGED << tasks, active_tasks, reading, exc, arrivals, last_req,
                    observed >>
    /\ UNCHANGED notServer

\* "finally: active_tasks -= 1"
ActiveAfterFinally_NoDecrement(n) == n

ActiveAfterFinally(n) == n - 1

\* the finally clause; the worker ends and the loop is free
WorkerFinally(t) ==
    /\ Holds(t)
    /\ wpc[t] = "finally"
    /\ active_tasks' = ActiveAfterFinally(active_tasks)
    /\ wpc' = [wpc EXCEPT ![t] = "done"]
    /\ running' = 0
    /\ UNCHANGED << tasks, temp_dirs, reading, exc, arrivals, last_req,
                    observed >>
    /\ UNCHANGED notServer

\* get_task_status for a task of the table
Poll(t) ==
    /\ running = 0
    /\ t \in DOMAIN tasks
    /\ observed' = [kind |-> "poll",
                     status |-> tasks[t].status,
                     error |-> tasks[t].error,
                     output_file |-> tasks[t].output_file,
                     completed_at |-> tasks[t].completed_at,
                     answer |-> "status"]
    /\ UNCHANGED << tasks, active_tasks, temp_dirs, reading, wpc, exc,
                    running, arrivals, last_req >>
    /\ UNCHANGED notServer

\* the answer of download_video: 404 for an unknown id, 400 unless the
\* status is 'completed', 404 without output_file or without the file
DownloadAnswer_FileOnly(known, status, output_file, file_exists) ==
    IF ~known \/ ~file_exists THEN "404" ELSE "file"

DownloadAnswer(known, status, output_file, file_exists) ==
    IF ~known THEN "404"
    ELSE IF status # "completed" THEN "400"
    ELSE IF output_file = "None" \/ ~file_exists THEN "404"
    ELSE "file"

\* download_video for an id that was handed out; whether the file at
\* output_file is on disk is drawn
Download(t) ==
    /\ running = 0
    /\ t \in temp_dirs \cup DOMAIN tasks
    /\ \E file_exists \in BOOLEAN :
          LET known == t \in DOMAIN tasks
              task == IF known THEN tasks[t] ELSE NewTask
          IN  observed' = [kind |-> "download",
                           status |-> task.status,
                           error |-> task.error,
                           output_file |-> task.output_file,
                           completed_at |-> task.completed_at,
                           answer |-> DownloadAnswer(known, task.status,
                                                     task.output_file,
                                                     file_exists)]
    /\ UNCHANGED << tasks, active_tasks, temp_dirs, reading, wpc, exc,
                    running, arrivals, last_req >>
    /\ UNCHANGED notServer

InitServer == CompileIdle /\ SelIdle /\ PlanIdle /\ SrvInit /\ MediaIdle

NextServer ==
    \/ ReqArrive
    \/ \E t \in TaskIds :
          \/ ReqCreate(t)
          \/ WorkerEnter(t)
          \/ WorkerSetProcessing(t)
          \/ WorkerCollect(t)
          \/ WorkerFilter(t)
          \/ WorkerErrorStatus(t)
          \/ WorkerErrorMessage(t)
          \/ WorkerStage(t)
          \/ WorkerCompletedStatus(t)
          \/ WorkerCompletedOutput(t)
          \/ WorkerCompletedAt(t)
          \/ WorkerCleanup(t)
          \/ WorkerExceptStatus(t)
          \/ WorkerExceptError(t)
          \/ WorkerExceptAt(t)
          \/ WorkerExceptCleanup(t)
          \/ WorkerFinally(t)
          \/ Poll(t)
          \/ Download(t)

SpecServer == InitServer /\ [][NextServer]_vars

TypeOKServer ==
    /\ DOMAIN tasks \subseteq TaskIds
    /\ active_tasks \in 0..MaxRequests
    /\ temp_dirs \subseteq TaskIds
    /\ reading \subseteq TaskIds
    /\ running \in 0..MaxRequests
    /\ arrivals \in 0..MaxRequests

(* ---------------------- claims about the task table -------------------- *)

LifecycleStates == {"pending", "processing", "completed", "failed"}

\* the tasks whose worker has started and not finished
WorkersInFlight == {t \in TaskIds : InFlight(t)}

\* the tasks the table shows as being processed
Processing == {t \in DOMAIN tasks : tasks[t].status = "processing"}

(* C17: the number of tasks being processed at the same time never exceeds
   MAX_CONCURRENT_TASKS, under every interleaving of upload requests and
   workers, and a request whose limit check finds the limit reached is
   answered 503. *)
C17_ConcurrencyLimit ==
    /\ Cardinality(WorkersInFlight) <= MAX_CONCURRENT_TASKS
    /\ Cardinality(Processing) <= MAX_CONCURRENT_TASKS
    /\ active_tasks <= MAX_CONCURRENT_TASKS
    /\ last_req.active >= MAX_CONCURRENT_TASKS => last_req.answer = "503"

\* a task is being processed while more tasks than the limit are in the
\* table and unfinished
C17_Witness ==
    /\ Cardinality(Processing) = 1
    /\ Cardinality({t \in DOMAIN tasks :
                       tasks[t].status \in {"pending", "processing"}})
          > MAX_CONCURRENT_TASKS

(* C18: in every reachable state the status of every task record is one of
   pending, processing, completed, failed, and so is every status that
   get_task_status reports. *)
C18_StatusDomain ==
    /\ \A t \in DOMAIN tasks : tasks[t].status \in LifecycleStates
    /\ observed.kind = "poll" => observed.status \in LifecycleStates

(* C19: a task's status only moves pending -> processing -> completed or
   pending -> processing -> failed, and never changes once it is completed
   or failed. *)
C19_LifecycleOrder ==
    [][ \A t \in DOMAIN tasks :
           tasks'[t].status # tasks[t].status =>
              \/ tasks[t].status = "pending"
                    /\ tasks'[t].status = "processing"
              \/ tasks[t].status = "processing"
                    /\ tasks'[t].status \in {"completed", "failed"} ]_vars

\* the positions of the worker after its handler stored the error message
AfterHandlerError == {"except_at", "except_cleanup", "finally", "done"}

(* C20: an exception raised by any stage of the worker is caught inside it:
   when the worker is over, the task is failed, has an error message and a
   completed_at, and its temp directory is gone; the error message the
   handler stored is never overwritten. *)
C20_TaskFatal ==
    /\ [](\A t \in TaskIds :
             (exc[t] # "none" /\ wpc[t] \in {"finally", "done"}) =>
                /\ tasks[t].status = "failed"
                /\ tasks[t].error # "None"
                /\ tasks[t].completed_at # "None"
                /\ t \notin temp_dirs)
    /\ [][ \A t \in TaskIds :
              (exc[t] # "none" /\ wpc[t] \in AfterHandlerError) =>
                 /\ tasks'[t].error = tasks[t].error
                 /\ tasks'[t].status = "failed" ]_vars

C20_Witness ==
    \E t, u \in TaskIds :
        /\ wpc[t] = "done" /\ exc[t] = "compile"
        /\ tasks[t].status = "failed"
        /\ wpc[u] = "done" /\ exc[u] = "HTTPException"
        /\ tasks[u].status = "failed"

\* the step is an upload request that had to be rejected: the limit was
\* reached, or the extension of the audio file is not an accepted one
RejectedArrival ==
    /\ arrivals' = arrivals + 1
    /\ \/ last_req'.active >= MAX_CONCURRENT_TASKS
       \/ ~last_req'.ext_ok

(* C21: a request that generate_video_with_upload rejects, for the limit or
   for the extension of the audio file, leaves the task table and
   active_tasks as they were, and no worker is scheduled for it, then or
   later. *)
C21_RejectedStartsNothing ==
    [][ RejectedArrival =>
           /\ last_req'.answer \in {"503", "400"}
           /\ tasks' = tasks
           /\ active_tasks' = active_tasks
           /\ wpc' = wpc
           /\ reading' = reading ]_vars

\* a request was rejected for its extension while another task was pending
C21_Witness ==
    /\ last_req.answer = "400"
    /\ \E t \in DOMAIN tasks : tasks[t].status = "pending"

(* C22: the duration probes are fail-soft: get_video_duration and
   get_audio_duration return their fixed default and never raise, whether
   the duration token cannot be parsed or the media tool cannot be invoked,
   so that no task ends failed because of a probe failure alone. *)
C22_ProbeFailSoft ==
    /\ \A outcome \in ToolOutcomes \ {"duration"}, d \in AudioDurationsProbed :
          get_video_duration(outcome, d) = Returned(VideoFallback)
    /\ \A t \in DOMAIN tasks :
          exc[t] = "get_audio_duration" => tasks[t].status # "failed"


(* ==================== Part 5: the worker's media steps ================== *)

\* most videos in the selected folders of one task
MaxAssets == 2

\* the categories of the selected videos
MediaFolders == {"Hair", "Skin"}

\* one entry of drive_videos: v.get('cached'), v.get('local_path') (absent,
\* naming no file, or naming a file on disk) and v.get('folder_name')
Assets == [cached : BOOLEAN, local_path : {"none", "missing", "present"},
           folder_name : MediaFolders]

DriveVideoLists == UNION {[1..n -> Assets] : n \in 0..MaxAssets}

\* what compile_videos can return for a target: it stops short when its
\* ceilings are hit, and its last clip can pass the target
CompiledLens(target) == {target - MinClip, target + MaxClip - 1}

InitMedia ==
    /\ CompileIdle
    /\ SelIdle
    /\ PlanIdle
    /\ SrvInit
    /\ drive_videos \in DriveVideoLists
    /\ audio_len \in AudioDurationsProbed
    /\ audio_token \in BOOLEAN
    /\ duration = 0
    /\ downloaded = << >>
    /\ media_folder_map = << >>
    /\ converted = << >>
    /\ converted_to_folder_map = << >>
    /\ compiled_len = 0
    /\ merged_len = 0
    /\ media_pc = "probe"
    /\ media_e = "none"

\* what probing the task's audio file can come to: the token is a property
\* of the file, whether the tool can be invoked is not
AudioOutcomes ==
    {"tool_fails", IF audio_token THEN "duration" ELSE "no_token"}

\* an exception leaves the try block of process_video_generation
MediaRaise(e) ==
    /\ media_pc' = "failed"
    /\ media_e' = e

\* "duration = get_audio_duration(audio_path)"
MediaProbe ==
    /\ media_pc = "probe"
    /\ \E outcome \in AudioOutcomes :
          LET probed == get_audio_duration(outcome, audio_len)
          IN  IF probed.kind = "raise"
              THEN /\ MediaRaise("get_audio_duration")
                   /\ UNCHANGED duration
              ELSE /\ duration' = probed.value
                   /\ media_pc' = "filter"
                   /\ UNCHANGED media_e
    /\ UNCHANGED << mediaInputs, downloaded, media_folder_map,
                    converted, converted_to_folder_map, compiled_len,
                    merged_len >>
    /\ UNCHANGED notMedia

\* "if v.get('cached') and v.get('local_path'):" and then
\* "if os.path.exists(local_path):"
Usable_NoExistsCheck(v) == v.cached /\ v.local_path # "none"

Usable(v) ==
    /\ v.cached /\ v.local_path # "none"
    /\ v.local_path = "present"

\* 1, ..., n
Indices(n) == [i \in 1..n |-> i]

\* the values of a sequence
Range(s) == {s[i] : i \in DOMAIN s}

\* "if not drive_videos: raise", the loop "for v in drive_videos:" and
\* "if not downloaded: raise"
MediaFilter ==
    /\ media_pc = "filter"
    /\ IF drive_videos = << >>
       THEN /\ MediaRaise("no_videos")
            /\ UNCHANGED << downloaded, media_folder_map >>
       ELSE LET kept == SelectSeq(Indices(Len(drive_videos)),
                                  LAMBDA i : Usable(drive_videos[i]))
            IN  /\ downloaded' = kept
                /\ media_folder_map' =
                       [path \in Range(kept) |-> drive_videos[path].folder_name]
                /\ IF kept = << >>
                   THEN MediaRaise("no_cached")
                   ELSE /\ media_pc' = "convert"
                        /\ UNCHANGED media_e
    /\ UNCHANGED << mediaInputs, duration, converted,
                    converted_to_folder_map, compiled_len, merged_len >>
    /\ UNCHANGED notMedia

\* convert_videos_to_vertical: vertical_i is appended when the conversion
\* of paths[i] succeeds, a failing one is skipped, and none left raises
MediaConvert ==
    /\ media_pc = "convert"
    /\ \E failing \in SUBSET (1..Len(downloaded)) :
          LET out == SelectSeq(Indices(Len(downloaded)),
                               LAMBDA i : i \notin failing)
          IN  /\ converted' = out
              /\ IF out = << >>
                 THEN MediaRaise("convert")
                 ELSE /\ media_pc' = "map"
                      /\ UNCHANGED media_e
    /\ UNCHANGED << mediaInputs, duration, downloaded,
                    media_folder_map, converted_to_folder_map, compiled_len,
                    merged_len >>
    /\ UNCHANGED notMedia

\* zip(downloaded, converted): the pairs of the entries at the same place
Zip(a, b) == [j \in 1..Min({Len(a), Len(b)}) |-> << a[j], b[j] >>]

\* "for orig_path, converted_path in zip(downloaded, converted):
\*      converted_to_folder_map[converted_path] =
\*          video_to_folder_map.get(orig_path, 'unknown')"
MediaMap ==
    /\ media_pc = "map"
    /\ LET pairs == Zip(downloaded, converted)
           of(converted_path) ==
               CHOOSE j \in DOMAIN pairs : pairs[j][2] = converted_path
       IN  converted_to_folder_map' =
               [converted_path \in {pairs[j][2] : j \in DOMAIN pairs} |->
                   LET orig_path == pairs[of(converted_path)][1]
                   IN  IF orig_path \in DOMAIN media_folder_map
                       THEN media_folder_map[orig_path]
                       ELSE "unknown"]
    /\ media_pc' = "compile"
    /\ UNCHANGED << mediaInputs, duration, downloaded,
                    media_folder_map, converted, compiled_len, merged_len,
                    media_e >>
    /\ UNCHANGED notMedia

\* "compiled = await compile_videos(converted, duration, ...)"
MediaCompile ==
    /\ media_pc = "compile"
    /\ \/ /\ MediaRaise("compile")
          /\ UNCHANGED compiled_len
       \/ /\ compiled_len' \in CompiledLens(duration)
          /\ media_pc' = "merge"
          /\ UNCHANGED media_e
    /\ UNCHANGED << mediaInputs, duration, downloaded,
                    media_folder_map, converted, converted_to_folder_map,
                    merged_len >>
    /\ UNCHANGED notMedia

\* the length of what the merge command writes: "-stream_loop -1" makes the
\* video input endless, "-t" stops the output at t and "-shortest" at the
\* end of the shortest input, which is the audio
MergedDuration(video_len, audio, t) == Min({audio, t})

\* merge_audio_video: the audio is probed again, then the command runs
MediaMerge ==
    /\ media_pc = "merge"
    /\ \E outcome \in AudioOutcomes, run_ok \in BOOLEAN :
          LET audio_duration == get_audio_duration(outcome, audio_len)
          IN  IF audio_duration.kind = "raise" \/ ~run_ok
              THEN /\ MediaRaise("merge")
                   /\ UNCHANGED merged_len
              ELSE /\ merged_len' = MergedDuration(compiled_len, audio_len,
                                                   audio_duration.value)
                   /\ media_pc' = "done"
                   /\ UNCHANGED media_e
    /\ UNCHANGED << mediaInputs, duration, downloaded,
                    media_folder_map, converted, converted_to_folder_map,
                    compiled_len >>
    /\ UNCHANGED notMedia

NextMedia ==
    \/ MediaProbe
    \/ MediaFilter
    \/ MediaConvert
    \/ MediaMap
    \/ MediaCompile
    \/ MediaMerge

SpecMedia == InitMedia /\ [][NextMedia]_vars

(* C23: whatever the compiled timeline's length, above or below the
   target, the file merge_audio_video writes is as long as the audio
   track. *)
C23_FinalDuration ==
    media_pc = "done" => merged_len = audio_len


(* C26: every source path handed to conversion and compilation passed the
   existence check, and a selected video that is not cached or whose
   local_path names no file is skipped without failing the task, as long
   as another selected video exists on disk. *)
C26_ExistenceFiltering ==
    /\ \A k \in DOMAIN downloaded :
          /\ drive_videos[downloaded[k]].cached
          /\ drive_videos[downloaded[k]].local_path = "present"
    /\ \A k \in DOMAIN converted :
          drive_videos[downloaded[converted[k]]].local_path = "present"
    /\ media_e = "no_videos" => drive_videos = << >>
    /\ media_e = "no_cached" =>
          \A i \in DOMAIN drive_videos :
              ~(drive_videos[i].cached /\ drive_videos[i].local_path = "present")

C26_Witness ==
    /\ media_pc = "done"
    /\ Len(downloaded) = 1
    /\ \E i \in DOMAIN drive_videos :
          drive_videos[i].cached /\ drive_videos[i].local_path = "missing"

(* C27: every converted file handed to compile_videos is recorded under the
   category of the video it was converted from, whichever conversions
   failed. *)
C27_CategorySurvivesConversion ==
    \A converted_path \in DOMAIN converted_to_folder_map :
        converted_to_folder_map[converted_path] =
            drive_videos[downloaded[converted_path]].folder_name


(* ------------------ claims about cut failures and playheads ------------ *)

\* this step is one iteration of the scheduling loop over a source
CutStep == attempts' = attempts + 1 /\ last'.src \in 1..N

FailedKinds == {"small", "nonzero"}

(* C24: a failed cut (non-zero exit, or exit 0 with an output of at most
   10000 bytes) leaves the concat list and the elapsed time unchanged, sets
   the failing source's playhead to 0 and leaves the other playheads alone,
   and with more than one source the iteration after it attempts another
   source than the one that just failed (stated here for runs without
   timeline, where the sources are scheduled round-robin). *)
C24_CutFailureStep ==
    [][ CutStep =>
          /\ last'.kind \in FailedKinds =>
                /\ list_file' = list_file
                /\ current_time' = current_time
                /\ video_positions'[last'.src] = 0
                /\ \A o \in 1..N \ {last'.src} :
                      video_positions'[o] = video_positions[o]
          /\ (last.kind \in FailedKinds /\ N > 1 /\ ~use_timeline) =>
                last'.src # last.src ]_vars


\* the entry a successful cut has just appended to the concat list
NewEntry == list_file'[Len(list_file')]

(* C25: every playhead is 0 before the first cut; a cut of s starts at s's
   playhead, which is first reset to 0 when playhead + clip exceeds the
   duration of s; a successful cut moves the playhead of s and the elapsed
   time forward by the clip duration; no cut changes the playhead of another
   source; so a cut of a source at least as long as the clip lies inside
   [0, duration(s)]. *)
C25_PlayheadSemantics ==
    [][ /\ (attempts = 0 /\ pc = "loop") =>
              \A s \in 1..N : video_positions[s] = 0
        /\ CutStep =>
              LET s == last'.src
              IN  /\ \A o \in 1..N \ {s} :
                        video_positions'[o] = video_positions[o]
                  /\ last'.kind = "ok" =>
                        /\ NewEntry.src = s
                        /\ NewEntry.start =
                              IF video_positions[s] + NewEntry.dur
                                     > video_durations[s]
                              THEN 0 ELSE video_positions[s]
                        /\ video_positions'[s] = NewEntry.start + NewEntry.dur
                        /\ current_time' = current_time + NewEntry.dur
                        /\ video_durations[s] >= NewEntry.dur =>
                              /\ NewEntry.start >= 0
                              /\ NewEntry.start + NewEntry.dur
                                     <= video_durations[s] ]_vars

\* a source was cut at a playhead above 0 and, later, again from 0
C25_Witness ==
    \E i, j \in DOMAIN list_file :
        /\ i < j
        /\ list_file[i].src = list_file[j].src
        /\ list_file[i].start > 0
        /\ list_file[j].start = 0
        /\ video_durations[list_file[i].src] >= list_file[j].dur


(* C28: while the reply is scanned, a VIDEOS_TO_USE or TIMELINE_SEGMENTS
   line changes the count or the time segments of the category named by the
   nearest preceding FOLDER line only; after a FOLDER line that matches no
   available category such lines change no category's count or segments.
   (The segments are compared outside the TIMELINE block, whose entries
   name their category themselves.) *)
C28_ParseAttribution ==
    [][ (plan_pc = "parse" /\ lines_read' = lines_read + 1) =>
          /\ \A k \in DOMAIN folder_video_counts' :
                (DictGet(folder_video_counts, k, -1) # folder_video_counts'[k])
                    => k = nearest_folder
          /\ ~timeline_mode =>
                \A k \in DOMAIN folder_timeline_segments' :
                    (DictGet(folder_timeline_segments, k, << >>)
                         # folder_timeline_segments'[k])
                        => k = nearest_folder ]_vars


(* ------------- claims about the counter and the results ---------------- *)

\* the tasks whose worker has started
Started == {t \in TaskIds : wpc[t] \notin {"none", "scheduled"}}

(* C29: active_tasks is never negative, equals the number of workers that
   have started and not finished, and is 0 when every started worker has
   finished, its task being completed or failed, whichever path the worker
   took. *)
C29_CounterBalance ==
    /\ active_tasks >= 0
    /\ active_tasks = Cardinality(WorkersInFlight)
    /\ (\A t \in Started :
            wpc[t] = "done" /\ tasks[t].status \in {"completed", "failed"})
          => active_tasks = 0
    /\ \A t \in TaskIds :
          wpc[t] = "done" => tasks[t].status \in {"completed", "failed"}

\* one worker has ended on the success path, another on an exception path
C29_Witness ==
    /\ active_tasks = 0
    /\ \E t, u \in Started :
          /\ wpc[t] = "done" /\ tasks[t].status = "completed"
          /\ wpc[u] = "done" /\ tasks[u].status = "failed"

(* C30: a status poll that reports completed also reports output_file and
   completed_at, one that reports failed also reports an error;
   download_video hands out a file only for a task whose status is
   completed; and neither changes the task table. *)
C30_ResultAvailability ==
    [][ /\ (observed'.kind = "poll" /\ observed'.status = "completed") =>
              /\ observed'.output_file # "None"
              /\ observed'.completed_at # "None"
        /\ (observed'.kind = "poll" /\ observed'.status = "failed") =>
              observed'.error # "None"
        /\ (observed'.kind = "download" /\ observed'.answer = "file") =>
              observed'.status = "completed"
        /\ observed' # observed => tasks' = tasks ]_vars

\* a file was handed out after a poll could have seen the task unfinished
C30_Witness ==
    /\ observed.kind = "download"
    /\ observed.answer = "file"
    /\ \E t \in DOMAIN tasks : tasks[t].status = "failed"

====
